---- MODULE Spec2Model ----
(***************************************************************************)
(* Model of the real-time interview session component (InterviewSession). *)
(* The component is a React function component whose state lives in       *)
(* useState cells and useRef cells; every callback (transport callbacks,  *)
(* interval and timeout callbacks, the capture callback, button handlers) *)
(* runs to completion on the single JavaScript thread, and an `await`     *)
(* splits a callback into two steps.  One action below is one such        *)
(* callback (or one half of the async message handler).                   *)
(*                                                                         *)
(* Units: wall-clock time (Date.now) and the audio clock                  *)
(* (AudioContext.currentTime) are counted in whole seconds; RMS levels    *)
(* and the noise floor are fixed-point numbers in units of 1/10000.       *)
(***************************************************************************)
EXTENDS Integers, Sequences, FiniteSets, TLC

(***************************************************************************)
(* Program constants.                                                      *)
(***************************************************************************)
TimeBudget == 600

ViolationLimit == 3

SilenceThreshold == 10

EscalationCap == 2

InitialNoiseFloor == 20

MinThreshold == 300

SensitivityFactor == 6

(***************************************************************************)
(* Bounds of the model.                                                    *)
(***************************************************************************)
MaxCalls == 3

MaxWarnings == 4

MaxClock == 36

MaxAudioTime == 1

MaxFragments == 3

MaxInterrupts == 1

MaxGraceTicks == 2

MaxLines == 3

MaxLineLen == 4

ServerActiveUntil == 2

ConvergeChunks == 50

MaxFloor == 40

MaxRms == 130

Tolerance == 10

(***************************************************************************)
(* Termination reasons.                                                    *)
(***************************************************************************)
(* no value yet: no termination committed, onComplete not called *)
NoValue == -1

ReasonCompleted == "Completed"

ReasonManual == "User Requested End"

ReasonTimeLimit == "Time Limit Exceeded"

ReasonSecurity == "Security Violation: Multiple breaches detected."

NoReason == "none"

NoSource == [arrival |-> 0]

NoChunk ==
  [seq |-> 0, rms |-> -1, forwarded |-> FALSE, muted |-> FALSE,
   sendFailed |-> FALSE, prevFailed |-> FALSE]

ToolReasonArgs == {"", "Candidate asked to stop"}

VARIABLES
  pc,                     \* transport: "starting", "connecting", "open", "closed", "failed"
  status,                 \* useState status
  isMounted,              \* isMountedRef
  isConnected,            \* isConnectedRef
  connectResolved,        \* `await sessionPromise` has returned
  sessionRef,             \* sessionRef: "null" or "session"
  streamRef,              \* streamRef: "null" or "stream"
  micTracks,              \* the microphone tracks: "none", "live" or "stopped"
  micStops,               \* history: number of times the tracks were stopped
  transportCloses,        \* history: number of session.close() calls
  terminationTriggered,   \* terminationTriggeredRef
  graceTimers,            \* pending setTimeout(…, 2000) callbacks: sequence of reasons
  completions,            \* calls made to onComplete: sequence of reasons
  timeLeft,               \* useState timeLeft
  timerCleared,           \* clearInterval(timer) was called from the updater
  warningCount,           \* useState warningCount
  firstRequest,           \* history: reason of the first handleTermination call
  callCount,              \* history: number of handleTermination calls (saturating)
  timeLimitRequests,      \* history: calls handleTermination("Time Limit Exceeded")
  timeLeftRef,            \* timeLeftRef (part_000, components/InterviewSession.tsx)
  committedTimeLeft,      \* history: the countdown when the termination was committed
  reportedTimeLeft,       \* history: the timeLeftAtEnd argument of onComplete
  currentTime,            \* audioContext.currentTime
  nextAudioStartTime,     \* nextAudioStartTimeRef
  sourcesRef,             \* sourcesRef: the set of started sources not yet removed
  pendingDecodes,         \* fragments whose `await decodeAudioData` has not returned
  lastScheduled,          \* history: the latest source.start(startTime) call
  lastStopped,            \* history: what the latest flush stopped and discarded
  scheduledCount,         \* history: number of source.start calls
  arrivals,               \* history: number of audio fragments received
  epoch,                  \* history: number of flushes (interrupted / disconnect)
  isAiSpeaking,           \* isAiSpeakingRef
  isWaitingForResponse,   \* isWaitingForResponseRef
  isProcessingTimeout,    \* isProcessingTimeoutRef
  silenceWarningCount,    \* silenceWarningCountRef
  lastAiTurnEndTime,      \* lastAiTurnEndTimeRef
  wallClock,              \* Date.now()
  systemMessages,         \* history: texts handed to sendRealtimeInput({text})
  silentTimeouts,         \* history: silence timeouts since the candidate last spoke
  periodSends,            \* history: system messages sent in this waiting period
  noiseFloor,             \* noiseFloorRef
  isUserSpeaking,         \* useState isUserSpeaking
  isMuted,                \* useState isMuted
  trackEnabled,           \* enabled flag of the microphone audio tracks
  lastChunk,              \* history: the latest chunk the capture callback processed
  lastRms,                \* constant-signal experiment: the rms fed (-1: none)
  runLen,                 \* constant-signal experiment: chunks fed so far
  runInBand,              \* constant-signal experiment: rms < 3 * floor at the start
  transcriptLines,        \* useState transcriptLines
  fullTranscriptHistory   \* fullTranscriptHistory ref

lifecycleVars == <<pc, status, isMounted, isConnected, connectResolved, sessionRef,
                   streamRef, micTracks, micStops, transportCloses>>

termVars == <<terminationTriggered, graceTimers, firstRequest, callCount>>

reportVars == <<timeLeftRef, committedTimeLeft, reportedTimeLeft>>

timerVars == <<timeLeft, timerCleared, timeLimitRequests,
               timeLeftRef, committedTimeLeft, reportedTimeLeft>>

schedVars == <<currentTime, nextAudioStartTime, sourcesRef, pendingDecodes,
               lastScheduled, lastStopped, scheduledCount, arrivals, epoch>>

turnVars == <<isAiSpeaking, isWaitingForResponse, isProcessingTimeout,
              silenceWarningCount, lastAiTurnEndTime, wallClock,
              systemMessages, silentTimeouts, periodSends>>

vadVars == <<noiseFloor, isUserSpeaking, lastRms, runLen, runInBand,
             isMuted, trackEnabled, lastChunk>>

transcriptVars == <<transcriptLines, fullTranscriptHistory>>

vars == <<pc, status, isMounted, isConnected, connectResolved, sessionRef,
          streamRef, micTracks, micStops, transportCloses,
          terminationTriggered, graceTimers, completions,
          timeLeft, timerCleared, warningCount,
          firstRequest, callCount, timeLimitRequests,
          timeLeftRef, committedTimeLeft, reportedTimeLeft,
          currentTime, nextAudioStartTime, sourcesRef, pendingDecodes,
          lastScheduled, lastStopped, scheduledCount, arrivals, epoch,
          isAiSpeaking, isWaitingForResponse, isProcessingTimeout,
          silenceWarningCount, lastAiTurnEndTime, wallClock,
          systemMessages, silentTimeouts, periodSends,
          noiseFloor, isUserSpeaking, lastRms, runLen, runInBand,
          isMuted, trackEnabled, lastChunk,
          transcriptLines, fullTranscriptHistory>>

Min(a, b) == IF a < b THEN a ELSE b

Max(a, b) == IF a > b THEN a ELSE b

Init ==
  /\ pc = "starting"
  /\ status = "connecting"
  /\ isMounted = TRUE
  /\ isConnected = FALSE
  /\ connectResolved = FALSE
  /\ sessionRef = "null"
  /\ streamRef = "null"
  /\ micTracks = "none"
  /\ micStops = 0
  /\ transportCloses = 0
  /\ terminationTriggered = FALSE
  /\ graceTimers = <<>>
  /\ completions = <<>>
  /\ timeLeft = TimeBudget
  /\ timerCleared = FALSE
  /\ warningCount = 0
  /\ firstRequest = NoReason
  /\ callCount = 0
  /\ timeLimitRequests = 0
  /\ timeLeftRef = TimeBudget
  /\ committedTimeLeft = NoValue
  /\ reportedTimeLeft = NoValue
  /\ currentTime = 0
  /\ nextAudioStartTime = 0
  /\ sourcesRef = {}
  /\ pendingDecodes = {}
  /\ lastScheduled = NoSource
  /\ lastStopped = [count |-> 0, pointer |-> 0]
  /\ scheduledCount = 0
  /\ arrivals = 0
  /\ epoch = 0
  /\ isAiSpeaking = FALSE
  /\ isWaitingForResponse = FALSE
  /\ isProcessingTimeout = FALSE
  /\ silenceWarningCount = 0
  /\ lastAiTurnEndTime = 0
  /\ wallClock = 1
  /\ systemMessages = <<>>
  /\ silentTimeouts = 0
  /\ periodSends = 0
  /\ noiseFloor = InitialNoiseFloor
  /\ isUserSpeaking = FALSE
  /\ isMuted = FALSE
  /\ trackEnabled = TRUE
  /\ lastChunk = NoChunk
  /\ lastRms = -1
  /\ runLen = 0
  /\ runInBand = FALSE
  /\ transcriptLines = <<>>
  /\ fullTranscriptHistory = <<>>

(***************************************************************************)
(* handleTermination(reason): the terminate-once guard.  The history      *)
(* variables firstRequest and callCount record the calls themselves.      *)
(***************************************************************************)
HandleTerminationNoGuard(reason) ==
  /\ terminationTriggered' = TRUE
  /\ graceTimers' = Append(graceTimers, reason)
  /\ firstRequest' = IF callCount = 0 THEN reason ELSE firstRequest
  /\ callCount' = Min(callCount + 1, MaxCalls)

HandleTermination(reason) ==
  /\ firstRequest' = IF callCount = 0 THEN reason ELSE firstRequest
  /\ callCount' = Min(callCount + 1, MaxCalls)
  /\ IF terminationTriggered
       THEN UNCHANGED <<terminationTriggered, graceTimers>>
       ELSE /\ terminationTriggered' = TRUE
            /\ graceTimers' = Append(graceTimers, reason)

(***************************************************************************)
(* disconnect(): marks the session disconnected, closes the transport if  *)
(* the session handle is set, stops and forgets every active source and   *)
(* resets the schedule pointer.                                            *)
(***************************************************************************)
Flushed(active, pointer) == [count |-> Cardinality(active), pointer |-> pointer]

Disconnect ==
  /\ isConnected' = FALSE
  /\ sessionRef' = "null"
  /\ pc' = IF sessionRef = "session" THEN "closed" ELSE pc
  /\ transportCloses' = IF sessionRef = "session"
                          THEN Min(transportCloses + 1, MaxCalls)
                          ELSE transportCloses
  /\ streamRef' = "null"
  /\ micTracks' = IF streamRef = "stream" THEN "stopped" ELSE micTracks
  /\ micStops' = IF streamRef = "stream" THEN Min(micStops + 1, MaxCalls)
                                          ELSE micStops
  /\ lastStopped' = Flushed(sourcesRef, nextAudioStartTime)
  /\ sourcesRef' = {}
  /\ nextAudioStartTime' = 0
  /\ epoch' = epoch + 1
  /\ UNCHANGED <<currentTime, pendingDecodes, lastScheduled, scheduledCount,
                 arrivals>>

(***************************************************************************)
(* initSession and the transport callbacks.                                *)
(***************************************************************************)
initSessionFail ==
  /\ pc = "starting"
  /\ pc' = "failed"
  /\ status' = "error"
  /\ UNCHANGED <<isMounted, isConnected, connectResolved, sessionRef,
                 streamRef, micTracks, micStops, transportCloses>>
  /\ UNCHANGED <<termVars, completions, timerVars, warningCount,
                 schedVars, turnVars, vadVars, transcriptVars>>

initSessionConnect ==
  /\ pc = "starting"
  /\ pc' = IF isMounted THEN "connecting" ELSE "failed"
  /\ streamRef' = "stream"
  /\ micTracks' = "live"
  /\ UNCHANGED <<status, isMounted, isConnected, connectResolved, sessionRef,
                 micStops, transportCloses>>
  /\ UNCHANGED <<termVars, completions, timerVars, warningCount,
                 schedVars, turnVars, vadVars, transcriptVars>>

onopen ==
  /\ pc = "connecting"
  /\ IF ~isMounted
       THEN /\ pc' = "closed"
            /\ transportCloses' = Min(transportCloses + 1, MaxCalls)
            /\ UNCHANGED <<status, isConnected, nextAudioStartTime>>
       ELSE /\ pc' = "open"
            /\ status' = "connected"
            /\ isConnected' = TRUE
            /\ nextAudioStartTime' = 0
            /\ UNCHANGED transportCloses
  /\ UNCHANGED <<isMounted, connectResolved, sessionRef,
                 streamRef, micTracks, micStops>>
  /\ UNCHANGED <<currentTime, sourcesRef, pendingDecodes, lastScheduled,
                 lastStopped, scheduledCount, arrivals, epoch>>
  /\ UNCHANGED <<termVars, completions, timerVars, warningCount,
                 turnVars, vadVars, transcriptVars>>

sessionResolved ==
  /\ pc \in {"open", "closed"}
  /\ ~connectResolved
  /\ connectResolved' = TRUE
  /\ sessionRef' = "session"
  /\ lastChunk' = IF isConnected /\ isMounted /\ lastChunk.rms >= 0
                    THEN [lastChunk EXCEPT !.forwarded = TRUE]
                    ELSE lastChunk
  /\ UNCHANGED <<pc, status, isMounted, isConnected,
                 streamRef, micTracks, micStops, transportCloses>>
  /\ UNCHANGED <<noiseFloor, isUserSpeaking, lastRms, runLen, runInBand,
                 isMuted, trackEnabled>>
  /\ UNCHANGED <<termVars, completions, timerVars, warningCount,
                 schedVars, turnVars, transcriptVars>>

onerror ==
  /\ pc \in {"connecting", "open"}
  /\ status' = "error"
  /\ UNCHANGED <<pc, isMounted, isConnected, connectResolved, sessionRef,
                 streamRef, micTracks, micStops, transportCloses>>
  /\ UNCHANGED <<termVars, completions, timerVars, warningCount,
                 schedVars, turnVars, vadVars, transcriptVars>>

onclose ==
  /\ pc = "open"
  /\ pc' = "closed"
  /\ status' = IF isConnected THEN "connecting" ELSE status
  /\ UNCHANGED <<isMounted, isConnected, connectResolved, sessionRef,
                 streamRef, micTracks, micStops, transportCloses>>
  /\ UNCHANGED <<termVars, completions, timerVars, warningCount,
                 schedVars, turnVars, vadVars, transcriptVars>>

(***************************************************************************)
(* Termination sources other than the tool call, the grace timeout and    *)
(* the unmount cleanup.                                                    *)
(***************************************************************************)
handleManualEnd ==
  /\ isMounted
  /\ HandleTermination(ReasonManual)
  /\ UNCHANGED <<lifecycleVars, completions, timerVars, warningCount,
                 schedVars, turnVars, vadVars, transcriptVars>>

triggerViolationOffByOne ==
  /\ isMounted
  /\ warningCount < MaxWarnings
  /\ warningCount' = warningCount + 1
  /\ IF warningCount >= ViolationLimit
       THEN HandleTermination(ReasonSecurity)
       ELSE UNCHANGED termVars
  /\ UNCHANGED <<lifecycleVars, completions, timerVars,
                 schedVars, turnVars, vadVars, transcriptVars>>

triggerViolation ==
  /\ isMounted
  /\ warningCount < MaxWarnings
  /\ warningCount' = warningCount + 1
  /\ IF warningCount + 1 >= ViolationLimit
       THEN HandleTermination(ReasonSecurity)
       ELSE UNCHANGED termVars
  /\ UNCHANGED <<lifecycleVars, completions, timerVars,
                 schedVars, turnVars, vadVars, transcriptVars>>

timerTickNoClear ==
  /\ status = "connected"
  /\ isMounted
  /\ IF timeLeft <= 1
       THEN /\ HandleTermination(ReasonTimeLimit)
            /\ timeLimitRequests' = Min(timeLimitRequests + 1, MaxCalls)
            /\ timeLeft' = 0
            /\ UNCHANGED timerCleared
       ELSE /\ timeLeft' = timeLeft - 1
            /\ UNCHANGED <<timerCleared, timeLimitRequests, termVars>>
  /\ UNCHANGED reportVars
  /\ UNCHANGED <<lifecycleVars, completions, warningCount,
                 schedVars, turnVars, vadVars, transcriptVars>>

timerTickAnyStatus ==
  /\ isMounted
  /\ ~timerCleared
  /\ IF timeLeft <= 1
       THEN /\ timerCleared' = TRUE
            /\ HandleTermination(ReasonTimeLimit)
            /\ timeLimitRequests' = timeLimitRequests + 1
            /\ timeLeft' = 0
       ELSE /\ timeLeft' = timeLeft - 1
            /\ UNCHANGED <<timerCleared, timeLimitRequests, termVars>>
  /\ UNCHANGED reportVars
  /\ UNCHANGED <<lifecycleVars, completions, warningCount,
                 schedVars, turnVars, vadVars, transcriptVars>>

timerTick ==
  /\ status = "connected"
  /\ isMounted
  /\ ~timerCleared
  /\ IF timeLeft <= 1
       THEN /\ timerCleared' = TRUE
            /\ HandleTermination(ReasonTimeLimit)
            /\ timeLimitRequests' = timeLimitRequests + 1
            /\ timeLeft' = 0
       ELSE /\ timeLeft' = timeLeft - 1
            /\ UNCHANGED <<timerCleared, timeLimitRequests, termVars>>
  /\ UNCHANGED reportVars
  /\ UNCHANGED <<lifecycleVars, completions, warningCount,
                 schedVars, turnVars, vadVars, transcriptVars>>

graceTimeout ==
  /\ graceTimers # <<>>
  /\ graceTimers' = Tail(graceTimers)
  /\ Disconnect
  /\ completions' = Append(completions, Head(graceTimers))
  /\ UNCHANGED <<status, isMounted, connectResolved>>
  /\ UNCHANGED <<terminationTriggered, firstRequest, callCount>>
  /\ UNCHANGED <<timerVars, warningCount, turnVars, vadVars, transcriptVars>>

unmount ==
  /\ isMounted
  /\ isMounted' = FALSE
  /\ Disconnect
  /\ UNCHANGED <<status, connectResolved>>
  /\ UNCHANGED <<termVars, completions, timerVars, warningCount,
                 turnVars, vadVars, transcriptVars>>

(***************************************************************************)
(* Server messages.  A message is a record of the parts the handler reads:*)
(*   toolCall    "none", "endInterview" or "other" (some other function)  *)
(*   reasonArg   args.reason of the endInterview call ("" when missing)   *)
(*   hasContent  message.serverContent is present                         *)
(*   interrupted, turnComplete   flags of serverContent                   *)
(*   text        modelTurn.parts[0].text, a sequence of tokens            *)
(*   inputText   inputTranscription.text, a sequence of tokens            *)
(*   audio       duration of the inlineData fragment, 0 when absent       *)
(*   decodable   decodeAudioData returns a buffer (it throws otherwise)   *)
(* Texts are sequences of tokens; the token " " is white space.           *)
(***************************************************************************)
EmptyMessage ==
  [toolCall |-> "none", reasonArg |-> "", hasContent |-> FALSE,
   interrupted |-> FALSE, turnComplete |-> FALSE,
   text |-> <<>>, inputText |-> <<>>, audio |-> 0, decodable |-> TRUE]

ContentMessage == [EmptyMessage EXCEPT !.hasContent = TRUE]

RECURSIVE TrimStart(_)
TrimStart(t) ==
  IF t # <<>> /\ Head(t) = " " THEN TrimStart(Tail(t)) ELSE t

RECURSIVE TrimEnd(_)
TrimEnd(t) ==
  IF t # <<>> /\ t[Len(t)] = " " THEN TrimEnd(SubSeq(t, 1, Len(t) - 1)) ELSE t

Trim(t) == TrimEnd(TrimStart(t))

Last(q) == q[Len(q)]

ReplaceLast(q, x) == [q EXCEPT ![Len(q)] = x]

(* setTranscriptLines updater of the modelTurn text branch *)
AiLine(lines, displayText) ==
  IF lines # <<>> /\ Last(lines).speaker = "ai"
    THEN ReplaceLast(lines, [Last(lines) EXCEPT !.text = @ \o <<" ">> \o displayText])
    ELSE Append(lines, [speaker |-> "ai", text |-> displayText])

(* fullTranscriptHistory update of the modelTurn text branch *)
AiHistory(history, displayText) ==
  IF history # <<>> /\ Head(Last(history)) = "AI:"
    THEN ReplaceLast(history, Last(history) \o <<" ">> \o displayText)
    ELSE Append(history, <<"AI:", " ">> \o displayText)

(* setTranscriptLines updater of the inputTranscription branch *)
UserLine(lines, text) ==
  IF lines # <<>> /\ Last(lines).speaker = "user"
    THEN ReplaceLast(lines, [Last(lines) EXCEPT !.text = @ \o text])
    ELSE Append(lines, [speaker |-> "user", text |-> text])

(* fullTranscriptHistory update of the inputTranscription branch *)
UserHistory(history, text) ==
  IF history # <<>> /\ Head(Last(history)) = "User:"
    THEN ReplaceLast(history, Last(history) \o text)
    ELSE Append(history, <<"User:", " ">> \o text)

(* the turn flags after the interrupted, hasContent and turnComplete branches *)
TurnAfterInterrupted(t, m) ==
  IF m.hasContent /\ m.interrupted
    THEN [t EXCEPT !.ai = FALSE, !.waiting = FALSE, !.processing = FALSE]
    ELSE t

TurnAfterContentAlways(t, m) ==
  [t EXCEPT !.ai = TRUE, !.lastEnd = 0, !.waiting = FALSE, !.processing = FALSE]

TurnAfterContentKeepsEscalation(t, m) ==
  IF m.hasContent
    THEN [t EXCEPT !.ai = TRUE, !.lastEnd = 0]
    ELSE t

TurnAfterContent(t, m) ==
  IF m.hasContent
    THEN [t EXCEPT !.ai = TRUE, !.lastEnd = 0, !.waiting = FALSE,
                   !.processing = FALSE]
    ELSE t

TurnAfterCompleteKeepsSpeaking(t, m, now) ==
  IF m.hasContent /\ m.turnComplete
    THEN [t EXCEPT !.lastEnd = now, !.waiting = TRUE]
    ELSE t

TurnAfterComplete(t, m, now) ==
  IF m.hasContent /\ m.turnComplete
    THEN [t EXCEPT !.ai = FALSE, !.lastEnd = now, !.waiting = TRUE]
    ELSE t

(* nextAudioStartTimeRef after the interrupted branch *)
InterruptedPointerStale(next) == next

InterruptedPointer(next) == 0

TextBounded(lines) ==
  /\ Len(lines) <= MaxLines
  /\ \A i \in DOMAIN lines : Len(lines[i].text) <= MaxLineLen

onmessage(m) ==
  /\ pc = "open"
  /\ connectResolved
  \* the endInterview tool call
  /\ IF m.toolCall = "endInterview"
       THEN HandleTermination(IF m.reasonArg = "" THEN ReasonCompleted
                                                  ELSE m.reasonArg)
       ELSE UNCHANGED termVars
  \* interrupted: flush the output scheduler
  /\ IF m.hasContent /\ m.interrupted
       THEN /\ epoch < MaxInterrupts
            /\ lastStopped' = Flushed(sourcesRef, nextAudioStartTime)
            /\ sourcesRef' = {}
            /\ nextAudioStartTime' = InterruptedPointer(nextAudioStartTime)
            /\ epoch' = epoch + 1
       ELSE UNCHANGED <<lastStopped, sourcesRef, nextAudioStartTime, epoch>>
  \* interrupted, hasContent, turnComplete: the turn flags
  /\ LET t0 == [ai |-> isAiSpeaking, waiting |-> isWaitingForResponse,
                processing |-> isProcessingTimeout, lastEnd |-> lastAiTurnEndTime]
         t3 == TurnAfterComplete(
                 TurnAfterContent(TurnAfterInterrupted(t0, m), m), m, wallClock)
     IN  /\ isAiSpeaking' = t3.ai
         /\ isWaitingForResponse' = t3.waiting
         /\ isProcessingTimeout' = t3.processing
         /\ lastAiTurnEndTime' = t3.lastEnd
  \* transcript fragments
  /\ LET displayText == Trim(m.text)
         aiAdds == m.hasContent /\ m.text # <<>> /\ displayText # <<>>
         userAdds == m.hasContent /\ m.inputText # <<>>
         lines1 == IF aiAdds THEN AiLine(transcriptLines, displayText)
                             ELSE transcriptLines
         hist1 == IF aiAdds THEN AiHistory(fullTranscriptHistory, displayText)
                            ELSE fullTranscriptHistory
     IN  /\ transcriptLines' =
              IF userAdds THEN UserLine(lines1, m.inputText) ELSE lines1
         /\ fullTranscriptHistory' =
              IF userAdds THEN UserHistory(hist1, m.inputText) ELSE hist1
         /\ TextBounded(transcriptLines')
  \* an audio fragment: the handler suspends in `await decodeAudioData`
  /\ IF m.hasContent /\ m.audio > 0
       THEN /\ arrivals < MaxFragments
            /\ arrivals' = arrivals + 1
            /\ pendingDecodes' = pendingDecodes \cup
                 {[arrival |-> arrivals + 1, dur |-> m.audio,
                   ok |-> m.decodable, epoch |-> epoch']}
       ELSE UNCHANGED <<arrivals, pendingDecodes>>
  \* server content (a turn-complete or an interruption too) starts a new period
  /\ periodSends' = IF m.hasContent THEN 0 ELSE periodSends
  /\ UNCHANGED <<silenceWarningCount, wallClock, systemMessages, silentTimeouts>>
  /\ UNCHANGED <<lifecycleVars, completions, timerVars, warningCount,
                 currentTime, lastScheduled, scheduledCount, vadVars>>

(***************************************************************************)
(* onmessage of src/unnamed/part_001: the handler of part_002 except that *)
(* every fragment is pushed to fullTranscriptHistory as a new entry.      *)
(***************************************************************************)
PushAiHistory(history, displayText) ==
  Append(history, <<"AI:", " ">> \o displayText)

PushUserHistory(history, text) ==
  Append(history, <<"User:", " ">> \o text)

onmessagePart001(m) ==
  /\ pc = "open"
  /\ connectResolved
  \* the endInterview tool call
  /\ IF m.toolCall = "endInterview"
       THEN HandleTermination(IF m.reasonArg = "" THEN ReasonCompleted
                                                  ELSE m.reasonArg)
       ELSE UNCHANGED termVars
  \* interrupted: flush the output scheduler
  /\ IF m.hasContent /\ m.interrupted
       THEN /\ epoch < MaxInterrupts
            /\ lastStopped' = Flushed(sourcesRef, nextAudioStartTime)
            /\ sourcesRef' = {}
            /\ nextAudioStartTime' = InterruptedPointer(nextAudioStartTime)
            /\ epoch' = epoch + 1
       ELSE UNCHANGED <<lastStopped, sourcesRef, nextAudioStartTime, epoch>>
  \* interrupted, hasContent, turnComplete: the turn flags
  /\ LET t0 == [ai |-> isAiSpeaking, waiting |-> isWaitingForResponse,
                processing |-> isProcessingTimeout, lastEnd |-> lastAiTurnEndTime]
         t3 == TurnAfterComplete(
                 TurnAfterContent(TurnAfterInterrupted(t0, m), m), m, wallClock)
     IN  /\ isAiSpeaking' = t3.ai
         /\ isWaitingForResponse' = t3.waiting
         /\ isProcessingTimeout' = t3.processing
         /\ lastAiTurnEndTime' = t3.lastEnd
  \* transcript fragments
  /\ LET displayText == Trim(m.text)
         aiAdds == m.hasContent /\ m.text # <<>> /\ displayText # <<>>
         userAdds == m.hasContent /\ m.inputText # <<>>
         lines1 == IF aiAdds THEN AiLine(transcriptLines, displayText)
                             ELSE transcriptLines
         hist1 == IF aiAdds THEN PushAiHistory(fullTranscriptHistory, displayText)
                            ELSE fullTranscriptHistory
     IN  /\ transcriptLines' =
              IF userAdds THEN UserLine(lines1, m.inputText) ELSE lines1
         /\ fullTranscriptHistory' =
              IF userAdds THEN PushUserHistory(hist1, m.inputText) ELSE hist1
         /\ TextBounded(transcriptLines')
  \* an audio fragment: the handler suspends in `await decodeAudioData`
  /\ IF m.hasContent /\ m.audio > 0
       THEN /\ arrivals < MaxFragments
            /\ arrivals' = arrivals + 1
            /\ pendingDecodes' = pendingDecodes \cup
                 {[arrival |-> arrivals + 1, dur |-> m.audio,
                   ok |-> m.decodable, epoch |-> epoch']}
       ELSE UNCHANGED <<arrivals, pendingDecodes>>
  \* server content (a turn-complete or an interruption too) starts a new period
  /\ periodSends' = IF m.hasContent THEN 0 ELSE periodSends
  /\ UNCHANGED <<silenceWarningCount, wallClock, systemMessages, silentTimeouts>>
  /\ UNCHANGED <<lifecycleVars, completions, timerVars, warningCount,
                 currentTime, lastScheduled, scheduledCount, vadVars>>

(***************************************************************************)
(* The continuation of the message handler after `await decodeAudioData`. *)
(* Each suspended handler resumes on its own; the order in which the      *)
(* pending decodes return is not fixed by the handler.                    *)
(***************************************************************************)
StartTimeIgnoringPointer(now, next) == now

StartTime(now, next) == Max(now, next)

(* decodeAudioData (utils/audio): TRUE when it returns a buffer; when the  *)
(* data cannot be decoded it throws and the handler ends at the await     *)
decodeAudioData(f) == f.ok

decodeDonePlaysGarbled(f) ==
  /\ f \in pendingDecodes
  /\ pendingDecodes' = pendingDecodes \ {f}
  /\ LET startTime == StartTime(currentTime, nextAudioStartTime)
         source == [arrival |-> f.arrival, start |-> startTime, dur |-> f.dur]
     IN  /\ lastScheduled' =
              [arrival |-> f.arrival, start |-> startTime, dur |-> f.dur,
               now |-> currentTime, next |-> nextAudioStartTime,
               arrivalEpoch |-> f.epoch, epoch |-> epoch]
         /\ scheduledCount' = scheduledCount + 1
         /\ nextAudioStartTime' = startTime + f.dur
         /\ sourcesRef' = sourcesRef \cup {source}
  /\ UNCHANGED <<currentTime, lastStopped, arrivals, epoch>>
  /\ UNCHANGED <<lifecycleVars, termVars, completions, timerVars, warningCount,
                 turnVars, vadVars, transcriptVars>>

decodeDone(f) ==
  /\ f \in pendingDecodes
  /\ pendingDecodes' = pendingDecodes \ {f}
  /\ IF decodeAudioData(f)
       THEN LET startTime == StartTime(currentTime, nextAudioStartTime)
                source == [arrival |-> f.arrival, start |-> startTime,
                           dur |-> f.dur]
            IN  /\ lastScheduled' =
                     [arrival |-> f.arrival, start |-> startTime, dur |-> f.dur,
                      now |-> currentTime, next |-> nextAudioStartTime,
                      arrivalEpoch |-> f.epoch, epoch |-> epoch]
                /\ scheduledCount' = scheduledCount + 1
                /\ nextAudioStartTime' = startTime + f.dur
                /\ sourcesRef' = sourcesRef \cup {source}
       ELSE UNCHANGED <<lastScheduled, scheduledCount, nextAudioStartTime,
                        sourcesRef>>
  /\ UNCHANGED <<currentTime, lastStopped, arrivals, epoch>>
  /\ UNCHANGED <<lifecycleVars, termVars, completions, timerVars, warningCount,
                 turnVars, vadVars, transcriptVars>>

(* source.onended: the buffer has played to its end *)
onendedEarly(source) ==
  /\ source \in sourcesRef
  /\ sourcesRef' = sourcesRef \ {source}
  /\ UNCHANGED <<currentTime, nextAudioStartTime, pendingDecodes, lastScheduled,
                 lastStopped, scheduledCount, arrivals, epoch>>
  /\ UNCHANGED <<lifecycleVars, termVars, completions, timerVars, warningCount,
                 turnVars, vadVars, transcriptVars>>

onended(source) ==
  /\ source \in sourcesRef
  /\ currentTime >= source.start + source.dur
  /\ sourcesRef' = sourcesRef \ {source}
  /\ UNCHANGED <<currentTime, nextAudioStartTime, pendingDecodes, lastScheduled,
                 lastStopped, scheduledCount, arrivals, epoch>>
  /\ UNCHANGED <<lifecycleVars, termVars, completions, timerVars, warningCount,
                 turnVars, vadVars, transcriptVars>>

(* the audio clock advances *)
audioClockAdvance ==
  /\ currentTime < MaxAudioTime
  /\ currentTime' = currentTime + 1
  /\ UNCHANGED <<nextAudioStartTime, sourcesRef, pendingDecodes, lastScheduled,
                 lastStopped, scheduledCount, arrivals, epoch>>
  /\ UNCHANGED <<lifecycleVars, termVars, completions, timerVars, warningCount,
                 turnVars, vadVars, transcriptVars>>

(***************************************************************************)
(* The silence check, run by setInterval every second.  The step advances *)
(* the wall clock by one second and runs the callback.  sendOk tells      *)
(* whether sendRealtimeInput returns (TRUE) or throws (FALSE).            *)
(***************************************************************************)
NudgeText == "Candidate is silent"

MoveOnText == "Candidate is still silent"

NoAnswerText == <<"[No Answer - Time Limit Exceeded]">>

Elapsed(now, lastEnd) == now - lastEnd

TimedOutEarly(now, lastEnd) == Elapsed(now, lastEnd) >= SilenceThreshold

TimedOut(now, lastEnd) == Elapsed(now, lastEnd) > SilenceThreshold

CapExceededAtCap(count) == count >= EscalationCap

CapExceeded(count) == count > EscalationCap

sendSystemMessage(text, sendOk) ==
  systemMessages' =
    IF sessionRef # "null"
      THEN Append(systemMessages, [text |-> text, delivered |-> sendOk])
      ELSE systemMessages

silenceInterval(sendOk) ==
  /\ isMounted
  /\ wallClock < MaxClock
  /\ wallClock' = wallClock + 1
  /\ IF /\ isConnected
        /\ isWaitingForResponse /\ ~isAiSpeaking /\ ~isProcessingTimeout
        /\ TimedOut(wallClock', lastAiTurnEndTime)
       THEN /\ isProcessingTimeout' = TRUE
            /\ silentTimeouts' = silentTimeouts + 1
            /\ periodSends' = IF sessionRef # "null" THEN periodSends + 1
                                                     ELSE periodSends
            /\ IF CapExceeded(silenceWarningCount + 1)
                 THEN /\ transcriptLines' = Append(transcriptLines,
                             [speaker |-> "user", text |-> NoAnswerText])
                      /\ fullTranscriptHistory' = Append(fullTranscriptHistory,
                             <<"User:", " ">> \o NoAnswerText)
                      /\ silenceWarningCount' = 0
                      /\ sendSystemMessage(MoveOnText, sendOk)
                 ELSE /\ silenceWarningCount' = silenceWarningCount + 1
                      /\ sendSystemMessage(NudgeText, sendOk)
                      /\ UNCHANGED transcriptVars
       ELSE /\ sendOk
            /\ UNCHANGED <<isProcessingTimeout, silenceWarningCount,
                           systemMessages, silentTimeouts, periodSends,
                           transcriptVars>>
  /\ UNCHANGED <<isAiSpeaking, isWaitingForResponse, lastAiTurnEndTime>>
  /\ UNCHANGED <<lifecycleVars, termVars, completions, timerVars, warningCount,
                 schedVars, vadVars>>

(***************************************************************************)
(* The capture callback (onaudioprocess) for a chunk with the given RMS.  *)
(* Floating-point blends are rounded to the nearest fixed-point unit.     *)
(* A disabled track delivers silence (rms = 0).  The chunk is handed to   *)
(* sessionPromise.then: it is sent at once when the promise has resolved, *)
(* and at the resolution otherwise (sessionResolved).                     *)
(***************************************************************************)
Blend(floor, rms, oldPercent) ==
  (oldPercent * floor + (100 - oldPercent) * rms + 50) \div 100

NoiseFloorDecayOnly(floor, rms) ==
  IF rms < floor THEN Blend(floor, rms, 90) ELSE floor

NoiseFloorSymmetric(floor, rms) ==
  IF rms < floor * 3 THEN Blend(floor, rms, 90) ELSE floor

NoiseFloorUpdate(floor, rms) ==
  IF rms < floor THEN Blend(floor, rms, 90)
  ELSE IF rms < floor * 3 THEN Blend(floor, rms, 95)
  ELSE floor

(***************************************************************************)
(* The noise-floor update applied to a constant signal: every chunk has   *)
(* the RMS lastRms.  InitFloor draws the starting floor and the RMS.      *)
(***************************************************************************)
InitFloor ==
  /\ pc = "open"
  /\ status = "connected"
  /\ isMounted = TRUE
  /\ isConnected = TRUE
  /\ connectResolved = TRUE
  /\ sessionRef = "session"
  /\ streamRef = "stream"
  /\ micTracks = "live"
  /\ micStops = 0
  /\ transportCloses = 0
  /\ terminationTriggered = FALSE
  /\ graceTimers = <<>>
  /\ completions = <<>>
  /\ timeLeft = TimeBudget
  /\ timerCleared = FALSE
  /\ warningCount = 0
  /\ firstRequest = NoReason
  /\ callCount = 0
  /\ timeLimitRequests = 0
  /\ timeLeftRef = TimeBudget
  /\ committedTimeLeft = NoValue
  /\ reportedTimeLeft = NoValue
  /\ currentTime = 0
  /\ nextAudioStartTime = 0
  /\ sourcesRef = {}
  /\ pendingDecodes = {}
  /\ lastScheduled = NoSource
  /\ lastStopped = [count |-> 0, pointer |-> 0]
  /\ scheduledCount = 0
  /\ arrivals = 0
  /\ epoch = 0
  /\ isAiSpeaking = FALSE
  /\ isWaitingForResponse = FALSE
  /\ isProcessingTimeout = FALSE
  /\ silenceWarningCount = 0
  /\ lastAiTurnEndTime = 0
  /\ wallClock = 1
  /\ systemMessages = <<>>
  /\ silentTimeouts = 0
  /\ periodSends = 0
  /\ noiseFloor \in 0..MaxFloor
  /\ isUserSpeaking = FALSE
  /\ isMuted = FALSE
  /\ trackEnabled = TRUE
  /\ lastChunk = NoChunk
  /\ lastRms \in 0..MaxRms
  /\ runLen = 0
  /\ runInBand = (lastRms < noiseFloor * 3)
  /\ transcriptLines = <<>>
  /\ fullTranscriptHistory = <<>>

feedConstantChunk ==
  /\ runLen < ConvergeChunks
  /\ noiseFloor' = NoiseFloorUpdate(noiseFloor, lastRms)
  /\ runLen' = runLen + 1
  /\ UNCHANGED <<isUserSpeaking, lastRms, runInBand,
                 isMuted, trackEnabled, lastChunk>>
  /\ UNCHANGED <<lifecycleVars, termVars, completions, timerVars, warningCount,
                 schedVars, turnVars, transcriptVars>>

DetectionThresholdNoMinimum(floor) == floor * SensitivityFactor

DetectionThreshold(floor) == Max(MinThreshold, floor * SensitivityFactor)

onaudioprocessKeepsWaiting(rms) ==
  /\ isConnected /\ isMounted
  /\ streamRef = "stream"
  /\ trackEnabled \/ rms = 0
  /\ noiseFloor' = NoiseFloorUpdate(noiseFloor, rms)
  /\ lastChunk' = [seq |-> 1 - lastChunk.seq, rms |-> rms,
                   forwarded |-> connectResolved, muted |-> isMuted,
                   sendFailed |-> FALSE, prevFailed |-> lastChunk.sendFailed]
  /\ isUserSpeaking' = (rms > DetectionThreshold(noiseFloor'))
  /\ UNCHANGED <<isWaitingForResponse, silenceWarningCount, silentTimeouts,
                 periodSends>>
  /\ UNCHANGED <<lastRms, runLen, runInBand, isMuted, trackEnabled>>
  /\ UNCHANGED <<isAiSpeaking, isProcessingTimeout, lastAiTurnEndTime,
                 wallClock, systemMessages>>
  /\ UNCHANGED <<lifecycleVars, termVars, completions, timerVars, warningCount,
                 schedVars, transcriptVars>>

(* sendOk: session.sendRealtimeInput returns (TRUE) or throws (FALSE) *)
onaudioprocessSendStopsCapture(rms, sendOk) ==
  /\ isConnected /\ isMounted
  /\ streamRef = "stream"
  /\ trackEnabled \/ rms = 0
  /\ noiseFloor' = NoiseFloorUpdate(noiseFloor, rms)
  /\ lastChunk' = [seq |-> 1 - lastChunk.seq, rms |-> rms,
                   forwarded |-> connectResolved, muted |-> isMuted,
                   sendFailed |-> ~sendOk, prevFailed |-> lastChunk.sendFailed]
  /\ IF rms > DetectionThreshold(noiseFloor')
       THEN /\ isUserSpeaking' = TRUE
            /\ isWaitingForResponse' = FALSE
            /\ silenceWarningCount' = 0
            /\ silentTimeouts' = 0
            /\ periodSends' = 0
       ELSE /\ isUserSpeaking' = FALSE
            /\ UNCHANGED <<isWaitingForResponse, silenceWarningCount,
                           silentTimeouts, periodSends>>
  /\ UNCHANGED <<lastRms, runLen, runInBand, isMuted, trackEnabled>>
  /\ UNCHANGED <<isAiSpeaking, isProcessingTimeout, lastAiTurnEndTime,
                 wallClock, systemMessages>>
  /\ isConnected' = (isConnected /\ sendOk)
  /\ UNCHANGED <<pc, status, isMounted, connectResolved, sessionRef,
                 streamRef, micTracks, micStops, transportCloses>>
  /\ UNCHANGED <<termVars, completions, timerVars, warningCount,
                 schedVars, transcriptVars>>

onaudioprocessSend(rms, sendOk) ==
  /\ isConnected /\ isMounted
  /\ streamRef = "stream"
  /\ trackEnabled \/ rms = 0
  /\ noiseFloor' = NoiseFloorUpdate(noiseFloor, rms)
  /\ lastChunk' = [seq |-> 1 - lastChunk.seq, rms |-> rms,
                   forwarded |-> connectResolved, muted |-> isMuted,
                   sendFailed |-> ~sendOk, prevFailed |-> lastChunk.sendFailed]
  /\ IF rms > DetectionThreshold(noiseFloor')
       THEN /\ isUserSpeaking' = TRUE
            /\ isWaitingForResponse' = FALSE
            /\ silenceWarningCount' = 0
            /\ silentTimeouts' = 0
            /\ periodSends' = 0
       ELSE /\ isUserSpeaking' = FALSE
            /\ UNCHANGED <<isWaitingForResponse, silenceWarningCount,
                           silentTimeouts, periodSends>>
  /\ UNCHANGED <<lastRms, runLen, runInBand, isMuted, trackEnabled>>
  /\ UNCHANGED <<isAiSpeaking, isProcessingTimeout, lastAiTurnEndTime,
                 wallClock, systemMessages>>
  /\ UNCHANGED <<lifecycleVars, termVars, completions, timerVars, warningCount,
                 schedVars, transcriptVars>>

onaudioprocess(rms) == onaudioprocessSend(rms, TRUE)

(* toggleMute: the mute button *)
toggleMute ==
  /\ isMounted
  /\ IF streamRef = "stream"
       THEN /\ trackEnabled' = ~isMuted
            /\ isMuted' = ~isMuted
       ELSE UNCHANGED <<trackEnabled, isMuted>>
  /\ UNCHANGED <<noiseFloor, isUserSpeaking, lastRms, runLen, runInBand, lastChunk>>
  /\ UNCHANGED <<lifecycleVars, termVars, completions, timerVars, warningCount,
                 schedVars, turnVars, transcriptVars>>

(***************************************************************************)
(* The message handler of the component variant that appends every        *)
(* fragment as a line of its own (components/InterviewSession.tsx).       *)
(***************************************************************************)
onopenLite ==
  /\ pc = "connecting"
  /\ pc' = "open"
  /\ status' = "connected"
  /\ isConnected' = TRUE
  /\ UNCHANGED <<isMounted, connectResolved, sessionRef,
                 streamRef, micTracks, micStops, transportCloses>>
  /\ UNCHANGED <<termVars, completions, timerVars, warningCount,
                 schedVars, turnVars, vadVars, transcriptVars>>

onmessageLite(m) ==
  /\ pc = "open"
  /\ connectResolved
  /\ IF m.toolCall = "endInterview"
       THEN HandleTermination(ReasonCompleted)
       ELSE UNCHANGED termVars
  /\ LET aiAdds == m.hasContent /\ m.text # <<>>
         userAdds == m.hasContent /\ m.inputText # <<>>
         lines1 == IF aiAdds
                     THEN Append(transcriptLines,
                                 [speaker |-> "ai", text |-> Trim(m.text)])
                     ELSE transcriptLines
         hist1 == IF aiAdds
                    THEN Append(fullTranscriptHistory, <<"AI:", " ">> \o Trim(m.text))
                    ELSE fullTranscriptHistory
     IN  /\ transcriptLines' =
              IF userAdds
                THEN Append(lines1, [speaker |-> "user", text |-> m.inputText])
                ELSE lines1
         /\ fullTranscriptHistory' =
              IF userAdds
                THEN Append(hist1, <<"User:", " ">> \o m.inputText)
                ELSE hist1
         /\ TextBounded(transcriptLines')
  /\ IF m.hasContent /\ m.audio > 0
       THEN /\ arrivals < MaxFragments
            /\ arrivals' = arrivals + 1
            /\ pendingDecodes' = pendingDecodes \cup
                 {[arrival |-> arrivals + 1, dur |-> m.audio,
                   ok |-> m.decodable, epoch |-> epoch]}
       ELSE UNCHANGED <<arrivals, pendingDecodes>>
  /\ UNCHANGED <<currentTime, nextAudioStartTime, sourcesRef, lastScheduled,
                 lastStopped, scheduledCount, epoch>>
  /\ UNCHANGED <<lifecycleVars, completions, timerVars, warningCount,
                 turnVars, vadVars>>

(***************************************************************************)
(* Inputs.                                                                 *)
(***************************************************************************)
Durations == {1, 2, 3}

ToolMessages ==
  {[EmptyMessage EXCEPT !.toolCall = "endInterview", !.reasonArg = a] :
     a \in ToolReasonArgs}
  \cup {[EmptyMessage EXCEPT !.toolCall = "other"]}

TurnMessages ==
  {ContentMessage,
   [ContentMessage EXCEPT !.turnComplete = TRUE],
   [ContentMessage EXCEPT !.interrupted = TRUE]}

AudioMessages ==
  {[ContentMessage EXCEPT !.audio = d] : d \in Durations}
  \cup {[ContentMessage EXCEPT !.interrupted = TRUE]}

AiTexts == {<<"Hello">>, <<"world">>, <<" ", "world", " ">>, <<" ">>}

UserTexts == {<<"yes">>, <<" ", "no">>}

TextMessages ==
  {[ContentMessage EXCEPT !.text = t] : t \in AiTexts}
  \cup {[ContentMessage EXCEPT !.inputText = t] : t \in UserTexts}
  \cup {[ContentMessage EXCEPT !.text = <<"Hello">>, !.inputText = <<"yes">>]}

LiteMessages ==
  TextMessages
  \cup {[ContentMessage EXCEPT !.audio = 1]}
  \cup {[EmptyMessage EXCEPT !.toolCall = "endInterview"]}

InterruptedMessage == [ContentMessage EXCEPT !.interrupted = TRUE]

InterruptMessages ==
  {[ContentMessage EXCEPT !.audio = 1],
   [ContentMessage EXCEPT !.turnComplete = TRUE],
   InterruptedMessage}

RmsLevels == {0, 10, 50, 120, 500}

TurnRmsLevels == {20, 500}

CaptureRmsLevels == {0, 500}

(***************************************************************************)
(* Specifications.  Each one runs the callbacks of one part of the        *)
(* component from the common initial state; the callbacks left out of a   *)
(* specification do not write the variables its properties read.          *)
(***************************************************************************)
Next ==
  \/ initSessionFail
  \/ initSessionConnect
  \/ onopen
  \/ sessionResolved
  \/ onerror
  \/ onclose
  \/ handleManualEnd
  \/ triggerViolation
  \/ timerTick
  \/ graceTimeout
  \/ unmount
  \/ \E m \in ToolMessages : onmessage(m)

Spec == Init /\ [][Next]_vars

NextSched ==
  \/ initSessionConnect
  \/ onopen
  \/ sessionResolved
  \/ \E m \in AudioMessages : onmessage(m)
  \/ \E f \in pendingDecodes : decodeDone(f)
  \/ \E source \in sourcesRef : onended(source)
  \/ audioClockAdvance

SpecSched == Init /\ [][NextSched]_vars

NextInterrupt ==
  \/ initSessionConnect
  \/ onopen
  \/ sessionResolved
  \/ \E m \in InterruptMessages : onmessage(m)
  \/ \E f \in pendingDecodes : decodeDone(f)
  \/ \E source \in sourcesRef : onended(source)
  \/ audioClockAdvance

SpecInterrupt == Init /\ [][NextInterrupt]_vars

DecodeMessages ==
  {[ContentMessage EXCEPT !.audio = 1],
   [ContentMessage EXCEPT !.audio = 2],
   [ContentMessage EXCEPT !.audio = 1, !.decodable = FALSE]}

NextDecode ==
  \/ initSessionConnect
  \/ onopen
  \/ sessionResolved
  \/ \E m \in DecodeMessages : onmessage(m)
  \/ \E f \in pendingDecodes : decodeDone(f)
  \/ \E source \in sourcesRef : onended(source)
  \/ audioClockAdvance

SpecDecode == Init /\ [][NextDecode]_vars

NextTurn ==
  \/ initSessionConnect
  \/ onopen
  \/ sessionResolved
  \/ \E m \in TurnMessages : onmessage(m)
  \/ \E sendOk \in BOOLEAN : silenceInterval(sendOk)
  \/ \E rms \in TurnRmsLevels : onaudioprocess(rms)

SpecTurn == Init /\ [][NextTurn]_vars

NextVAD ==
  \/ initSessionConnect
  \/ onopen
  \/ \E rms \in RmsLevels : onaudioprocess(rms)

SpecVAD == Init /\ [][NextVAD]_vars

ProtocolMessages ==
  {EmptyMessage,
   [EmptyMessage EXCEPT !.toolCall = "other"],
   [ContentMessage EXCEPT !.turnComplete = TRUE],
   [ContentMessage EXCEPT !.text = <<"Hello">>, !.audio = 1]}

NextProtocol ==
  \/ initSessionConnect
  \/ onopen
  \/ sessionResolved
  \/ handleManualEnd
  \/ \E m \in ProtocolMessages : onmessage(m)
  \/ \E f \in pendingDecodes : decodeDone(f)
  \/ \E sendOk \in BOOLEAN : silenceInterval(sendOk)

SpecProtocol == Init /\ [][NextProtocol]_vars

NextSend ==
  \/ initSessionConnect
  \/ onopen
  \/ sessionResolved
  \/ \E m \in TurnMessages : onmessage(m)
  \/ \E rms \in RmsLevels, sendOk \in BOOLEAN : onaudioprocessSend(rms, sendOk)

SpecSend == Init /\ [][NextSend]_vars

(***************************************************************************)
(* Teardown while audio is in flight: fragments arrive and are decoded,   *)
(* the candidate ends the session, and the grace timer runs disconnect.   *)
(***************************************************************************)
TeardownMessages == {[ContentMessage EXCEPT !.audio = 1]}

NextTeardown ==
  \/ initSessionConnect
  \/ onopen
  \/ sessionResolved
  \/ handleManualEnd
  \/ graceTimeout
  \/ \E m \in TeardownMessages : onmessage(m)
  \/ \E f \in pendingDecodes : decodeDone(f)
  \/ \E source \in sourcesRef : onended(source)
  \/ audioClockAdvance

SpecTeardown == Init /\ [][NextTeardown]_vars

(***************************************************************************)
(* The silence check while the AI's audio plays.  The server streams the   *)
(* audio of a turn faster than it plays and then signals turn-complete     *)
(* (during the first ServerActiveUntil seconds).  The audio clock runs     *)
(* with the wall clock and the callbacks run between the seconds: a decode *)
(* settles, and the onended of a finished source runs, before the next     *)
(* second starts.  One fragment of LongFragment seconds stands for the     *)
(* run of short fragments that carries that much audio.                    *)
(***************************************************************************)
LongFragment == 5

PlaybackMessages ==
  {[ContentMessage EXCEPT !.audio = LongFragment],
   [ContentMessage EXCEPT !.turnComplete = TRUE]}

ClocksAgree == currentTime = wallClock

CallbacksDone ==
  /\ connectResolved
  /\ pendingDecodes = {}
  /\ \A source \in sourcesRef : currentTime < source.start + source.dur

audioClockFollows ==
  /\ currentTime < wallClock
  /\ currentTime' = currentTime + 1
  /\ UNCHANGED <<nextAudioStartTime, sourcesRef, pendingDecodes, lastScheduled,
                 lastStopped, scheduledCount, arrivals, epoch>>
  /\ UNCHANGED <<lifecycleVars, termVars, completions, timerVars, warningCount,
                 turnVars, vadVars, transcriptVars>>

NextPlayback ==
  \/ initSessionConnect
  \/ onopen
  \/ sessionResolved
  \/ (/\ ClocksAgree
      /\ wallClock <= ServerActiveUntil
      /\ \E m \in PlaybackMessages : onmessage(m))
  \/ (ClocksAgree /\ \E f \in pendingDecodes : decodeDone(f))
  \/ (ClocksAgree /\ \E source \in sourcesRef : onended(source))
  \/ (/\ ClocksAgree
      /\ CallbacksDone
      /\ \E sendOk \in BOOLEAN : silenceInterval(sendOk))
  \/ audioClockFollows

SpecPlayback == Init /\ [][NextPlayback]_vars

(***************************************************************************)
(* The transcript around the silence escalation: turn-completes, user     *)
(* transcription fragments and AI text arrive while the timer escalates.  *)
(***************************************************************************)
NoAnswerMessages ==
  {[ContentMessage EXCEPT !.turnComplete = TRUE],
   [ContentMessage EXCEPT !.inputText = <<"yes">>],
   [ContentMessage EXCEPT !.text = <<"Hello">>]}

NextNoAnswer ==
  \/ initSessionConnect
  \/ onopen
  \/ sessionResolved
  \/ \E m \in NoAnswerMessages : onmessage(m)
  \/ \E sendOk \in BOOLEAN : silenceInterval(sendOk)

SpecNoAnswer == Init /\ [][NextNoAnswer]_vars

(***************************************************************************)
(* The countdown with a transport that can fail: the session connects,    *)
(* the transport may report an error or close, and the runtime fires the  *)
(* one-second interval and the grace timer whenever they are armed.       *)
(***************************************************************************)
NextCountdown ==
  \/ initSessionConnect
  \/ onopen
  \/ sessionResolved
  \/ onerror
  \/ onclose
  \/ timerTick
  \/ graceTimeout

SpecCountdown ==
  /\ Init
  /\ [][NextCountdown]_vars
  /\ WF_vars(initSessionConnect)
  /\ WF_vars(onopen)
  /\ WF_vars(sessionResolved)
  /\ WF_vars(timerTick)
  /\ WF_vars(graceTimeout)

(***************************************************************************)
(* src/unnamed/part_000 (and components/InterviewSession.tsx): onComplete *)
(* gets a third argument, timeLeftRef.current.  An effect copies timeLeft  *)
(* to timeLeftRef after each render in which timeLeft changed; React runs  *)
(* a pending effect before it processes the next update or a click.  The   *)
(* other parts of these callbacks are those of part_002.  The parent's     *)
(* handler of onComplete replaces the component (App.tsx: setStep), so     *)
(* its interval and effects do not run after the completion; the 1 s       *)
(* interval fires at most MaxGraceTicks times in the 2 s grace delay.      *)
(***************************************************************************)
timeLeftEffect ==
  /\ isMounted
  /\ timeLeftRef # timeLeft
  /\ timeLeftRef' = timeLeft
  /\ UNCHANGED <<timeLeft, timerCleared, timeLimitRequests, committedTimeLeft,
                 reportedTimeLeft>>
  /\ UNCHANGED <<lifecycleVars, termVars, completions, warningCount,
                 schedVars, turnVars, vadVars, transcriptVars>>

timerTickPart000 ==
  /\ status = "connected"
  /\ isMounted
  /\ ~timerCleared
  /\ timeLeftRef' = timeLeft
  /\ IF timeLeft <= 1
       THEN /\ timerCleared' = TRUE
            /\ HandleTermination(ReasonTimeLimit)
            /\ timeLimitRequests' = timeLimitRequests + 1
            /\ timeLeft' = 0
            /\ committedTimeLeft' =
                 IF terminationTriggered THEN committedTimeLeft ELSE 0
       ELSE /\ timeLeft' = timeLeft - 1
            /\ UNCHANGED <<timerCleared, timeLimitRequests, termVars,
                           committedTimeLeft>>
  /\ UNCHANGED reportedTimeLeft
  /\ UNCHANGED <<lifecycleVars, completions, warningCount,
                 schedVars, turnVars, vadVars, transcriptVars>>

handleManualEndPart000 ==
  /\ isMounted
  /\ HandleTermination(ReasonManual)
  /\ committedTimeLeft' =
       IF terminationTriggered THEN committedTimeLeft ELSE timeLeft
  /\ timeLeftRef' = timeLeft
  /\ UNCHANGED <<timeLeft, timerCleared, timeLimitRequests, reportedTimeLeft>>
  /\ UNCHANGED <<lifecycleVars, completions, warningCount,
                 schedVars, turnVars, vadVars, transcriptVars>>

graceTimeoutPart000KeepsCommitted ==
  /\ graceTimers # <<>>
  /\ graceTimers' = Tail(graceTimers)
  /\ Disconnect
  /\ completions' = Append(completions, Head(graceTimers))
  /\ reportedTimeLeft' = committedTimeLeft
  /\ UNCHANGED <<timeLeft, timerCleared, timeLimitRequests, timeLeftRef,
                 committedTimeLeft>>
  /\ UNCHANGED <<status, isMounted, connectResolved>>
  /\ UNCHANGED <<terminationTriggered, firstRequest, callCount>>
  /\ UNCHANGED <<warningCount, turnVars, vadVars, transcriptVars>>

graceTimeoutPart000 ==
  /\ graceTimers # <<>>
  /\ graceTimers' = Tail(graceTimers)
  /\ Disconnect
  /\ completions' = Append(completions, Head(graceTimers))
  /\ reportedTimeLeft' = timeLeftRef
  /\ UNCHANGED <<timeLeft, timerCleared, timeLimitRequests, timeLeftRef,
                 committedTimeLeft>>
  /\ UNCHANGED <<status, isMounted, connectResolved>>
  /\ UNCHANGED <<terminationTriggered, firstRequest, callCount>>
  /\ UNCHANGED <<warningCount, turnVars, vadVars, transcriptVars>>

NextReport ==
  \/ initSessionConnect
  \/ onopen
  \/ sessionResolved
  \/ handleManualEndPart000
  \/ (/\ completions = <<>>
      /\ graceTimers # <<>> => committedTimeLeft - timeLeft < MaxGraceTicks
      /\ timerTickPart000)
  \/ (completions = <<>> /\ timeLeftEffect)
  \/ graceTimeoutPart000

SpecReport == Init /\ [][NextReport]_vars

NextCapture ==
  \/ initSessionConnect
  \/ onopen
  \/ sessionResolved
  \/ toggleMute
  \/ graceTimeout
  \/ handleManualEnd
  \/ unmount
  \/ \E rms \in CaptureRmsLevels : onaudioprocess(rms)

SpecCapture == Init /\ [][NextCapture]_vars

NextTranscript ==
  \/ initSessionConnect
  \/ onopen
  \/ sessionResolved
  \/ \E m \in TextMessages : onmessage(m)

NextTranscriptPart001 ==
  \/ initSessionConnect
  \/ onopen
  \/ sessionResolved
  \/ \E m \in TextMessages : onmessagePart001(m)

SpecTranscriptPart001 == Init /\ [][NextTranscriptPart001]_vars

SpecFloor == InitFloor /\ [][feedConstantChunk]_vars

SpecTranscript == Init /\ [][NextTranscript]_vars

NextLite ==
  \/ initSessionConnect
  \/ onopenLite
  \/ sessionResolved
  \/ \E m \in LiteMessages : onmessageLite(m)
  \/ \E f \in pendingDecodes : decodeDone(f)

SpecLite == Init /\ [][NextLite]_vars

(***************************************************************************)
(* Playback in components/InterviewSession.tsx: fragments are scheduled   *)
(* as in the other variants, the audio clock runs, and every enabled      *)
(* callback eventually runs.  This variant registers no onended callback. *)
(***************************************************************************)
LitePlaybackMessages == {[ContentMessage EXCEPT !.audio = d] : d \in {1, 2}}

NextLitePlayback ==
  \/ initSessionConnect
  \/ onopenLite
  \/ sessionResolved
  \/ \E m \in LitePlaybackMessages : onmessageLite(m)
  \/ \E f \in pendingDecodes : decodeDone(f)
  \/ audioClockAdvance

SpecLitePlayback ==
  /\ Init
  /\ [][NextLitePlayback]_vars
  /\ WF_vars(NextLitePlayback)

(***************************************************************************)
(* The silence escalation with a server that goes quiet: the server sends *)
(* messages only during the first ServerActiveUntil seconds, the          *)
(* candidate never speaks, and the interval timer keeps firing.           *)
(***************************************************************************)
NextSilence ==
  \/ initSessionConnect
  \/ onopen
  \/ sessionResolved
  \/ (wallClock <= ServerActiveUntil /\ \E m \in TurnMessages : onmessage(m))
  \/ \E sendOk \in BOOLEAN : silenceInterval(sendOk)

SpecSilence ==
  /\ Init
  /\ [][NextSilence]_vars
  /\ WF_vars(\E sendOk \in BOOLEAN : silenceInterval(sendOk))

(***************************************************************************)
(* Properties.                                                             *)
(***************************************************************************)
CommittedReasons == graceTimers \o completions

Abs(x) == IF x < 0 THEN -x ELSE x

IsNoAnswerLine(line) == line.speaker = "user" /\ line.text = NoAnswerText

WaitingForUser == isConnected /\ isWaitingForResponse /\ ~isAiSpeaking

NoAnswerRecorded ==
  \E i \in DOMAIN transcriptLines : IsNoAnswerLine(transcriptLines[i])

\* C1: over any sequence of handleTermination calls only the first takes
\* effect: once a call has been made exactly one completion is pending or
\* delivered, its reason is the reason of the first call, and a call made
\* after the guard is set changes neither the guard nor the committed reason.
C1_TerminateOnce ==
  /\ [](/\ terminationTriggered = (callCount > 0)
        /\ Len(CommittedReasons) = (IF callCount > 0 THEN 1 ELSE 0)
        /\ Len(completions) <= 1
        /\ \A i \in DOMAIN CommittedReasons : CommittedReasons[i] = firstRequest)
  /\ [][terminationTriggered =>
          terminationTriggered' /\ CommittedReasons' = CommittedReasons]_vars

C1_Witness ==
  /\ completions = <<ReasonManual>>
  /\ callCount >= 3
  /\ timeLimitRequests = 1
  /\ warningCount >= ViolationLimit

C3_StartTimesNeverOverlap ==
  /\ [](/\ scheduledCount > 0 =>
             lastScheduled.start = Max(lastScheduled.now, lastScheduled.next)
        /\ \A a, b \in sourcesRef :
             a # b => \/ a.start + a.dur <= b.start
                      \/ b.start + b.dur <= a.start)
  /\ [][(/\ scheduledCount' = scheduledCount + 1
         /\ scheduledCount > 0
         /\ lastScheduled.epoch = epoch)
          => lastScheduled'.start >= lastScheduled.start + lastScheduled.dur]_vars

C3_Witness ==
  /\ Cardinality(sourcesRef) >= 2
  /\ scheduledCount >= 3
  /\ lastScheduled.next > lastScheduled.now
  /\ lastScheduled.start = lastScheduled.next

\* C4: a step that processes an interrupted signal empties the active source
\* set and resets the schedule pointer, and the first buffer scheduled after a
\* flush starts at the clock reading of its scheduling, not at the pointer
\* that was discarded.
C4_InterruptFlushes ==
  /\ [][epoch' # epoch =>
          /\ sourcesRef' = {}
          /\ nextAudioStartTime' = 0
          /\ lastStopped'.count = Cardinality(sourcesRef)]_vars
  /\ [][(/\ scheduledCount' = scheduledCount + 1
         /\ scheduledCount > 0
         /\ lastScheduled.epoch < epoch)
          => lastScheduled'.start = currentTime]_vars

C4_Witness ==
  /\ epoch = 1
  /\ lastStopped = [count |-> 2, pointer |-> 5]
  /\ scheduledCount = 3
  /\ lastScheduled.epoch = 1
  /\ lastScheduled.dur = 1
  /\ lastScheduled.start = lastScheduled.now
  /\ lastScheduled.start < 5

\* C5: with no interruption in between, a fragment that arrived earlier never
\* gets a later start time than a fragment that arrived after it.
C5_ArrivalOrderKept ==
  \A b \in sourcesRef :
    (/\ scheduledCount > 0
     /\ lastScheduled.arrivalEpoch = epoch
     /\ lastScheduled.arrival < b.arrival)
      => lastScheduled.start <= b.start

\* C6 (as stated): after the first silence timeout with no speech one nudge
\* has been sent; after the second one the no-answer line has been appended
\* and the escalation counter is back at 0.
C6_NoAnswerAfterTwoTimeouts ==
  /\ silentTimeouts = 1 =>
       /\ systemMessages # <<>>
       /\ Last(systemMessages).text = NudgeText
  /\ silentTimeouts = 2 =>
       /\ NoAnswerRecorded
       /\ silenceWarningCount = 0

\* C6 (amended): a silence timeout happens only in WaitingForUser more than
\* SilenceThreshold seconds after the last turn-complete, and it issues
\* exactly one system message: the first and the second timeout without
\* speech issue the nudge, append no line and raise the counter to 1 and 2;
\* the third one appends exactly one no-answer line, resets the counter to 0
\* and issues the move-on message.  No system message is issued and no line
\* is appended by the timer in any other step.
C6_EscalationSteps ==
  /\ [][silentTimeouts' = silentTimeouts + 1 =>
          /\ isWaitingForResponse /\ ~isAiSpeaking
          /\ wallClock' - lastAiTurnEndTime > SilenceThreshold
          /\ Len(systemMessages') = Len(systemMessages) + 1
          /\ IF silentTimeouts' % (EscalationCap + 1) = 0
               THEN /\ transcriptLines' = Append(transcriptLines,
                           [speaker |-> "user", text |-> NoAnswerText])
                    /\ silenceWarningCount' = 0
                    /\ Last(systemMessages').text = MoveOnText
               ELSE /\ transcriptLines' = transcriptLines
                    /\ silenceWarningCount' = silentTimeouts' % (EscalationCap + 1)
                    /\ Last(systemMessages').text = NudgeText]_vars
  /\ [][silentTimeouts' # silentTimeouts + 1 =>
          /\ systemMessages' = systemMessages
          /\ transcriptLines' = transcriptLines]_vars

C6_Witness ==
  /\ silentTimeouts = 3
  /\ silenceWarningCount = 0
  /\ Len(systemMessages) = 3
  /\ Len(transcriptLines) = 1
  /\ IsNoAnswerLine(transcriptLines[1])

\* C7: if the candidate never speaks, the session does not stay in
\* WaitingForUser for ever without the forced progression: from WaitingForUser
\* it eventually records the no-answer line or leaves WaitingForUser, the
\* interval timer firing for ever and whatever the server does.
C7_EventuallyMovesOn ==
  WaitingForUser ~> (NoAnswerRecorded \/ ~WaitingForUser)

\* Once a timeout is being processed, a tick of the interval timer changes
\* nothing but the clock: the behaviour that stays in WaitingForUser does so
\* with the timer still firing, however far the clock runs.
StalledTickChangesNothing ==
  [][(isProcessingTimeout /\ wallClock' # wallClock) =>
       UNCHANGED <<lifecycleVars, termVars, completions, timerVars, warningCount,
                   schedVars, vadVars, transcriptVars, isAiSpeaking,
                   isWaitingForResponse, isProcessingTimeout,
                   silenceWarningCount, lastAiTurnEndTime, systemMessages,
                   silentTimeouts, periodSends>>]_vars

\* C8: consecutive fragments of one speaker are accumulated into one line, in
\* the displayed list and in the history: no two adjacent lines have the same
\* speaker.
C8_SameSpeakerCoalesced ==
  /\ \A i \in 1..(Len(transcriptLines) - 1) :
       transcriptLines[i].speaker # transcriptLines[i + 1].speaker
  /\ \A i \in 1..(Len(fullTranscriptHistory) - 1) :
       Head(fullTranscriptHistory[i]) # Head(fullTranscriptHistory[i + 1])

\* C9: after every processed chunk the noise floor is at least the minimum
\* floor (the value the floor is configured with).
C9_FloorAtLeastMinimum == noiseFloor >= InitialNoiseFloor

\* C10 (as stated): after ConvergeChunks chunks of one constant RMS the noise
\* floor is within Tolerance of that RMS, for every RMS and starting floor.
C10_ConvergesForEveryRms ==
  runLen >= ConvergeChunks => Abs(noiseFloor - lastRms) <= Tolerance

\* C10 (amended): for a constant RMS below 3 times the starting floor every
\* chunk shrinks the distance between floor and RMS by the factor 0.95 or
\* better (up to rounding), and after ConvergeChunks chunks the floor is
\* within Tolerance of the RMS; for a constant RMS of 3 times the starting
\* floor or more the floor does not change at all.
C10_ConvergesBelowThreeTimesFloor ==
  /\ [](runLen >= ConvergeChunks /\ runInBand =>
          Abs(noiseFloor - lastRms) <= Tolerance)
  /\ [][runInBand =>
          100 * Abs(noiseFloor' - lastRms) <= 95 * Abs(noiseFloor - lastRms) + 50]_vars
  /\ [][~runInBand => noiseFloor' = noiseFloor]_vars

C10_Witness ==
  /\ runLen >= ConvergeChunks
  /\ runInBand
  /\ lastRms = 100
  /\ noiseFloor >= 90

ChunkProcessed == lastChunk'.seq # lastChunk.seq

\* C11: no chunk is classified as speech unless its RMS exceeds the minimum
\* absolute threshold (0.03), whatever the noise floor is at that time.
C11_SpeechExceedsMinimumThreshold ==
  [][(ChunkProcessed /\ isUserSpeaking') => lastChunk'.rms > MinThreshold]_vars

C11_Witness ==
  /\ noiseFloor < InitialNoiseFloor
  /\ lastChunk.rms > noiseFloor * SensitivityFactor
  /\ lastChunk.rms <= MinThreshold
  /\ ~isUserSpeaking

\* C12: every chunk first updates the floor (0.90/0.10 blend when rms is
\* below the floor, 0.95/0.05 blend when rms is below 3 times the floor, no
\* change otherwise) and is then classified against the updated floor: the
\* user-speaking flag is set to rms > max(0.03, 6 * updated floor).
C12_FloorUpdateThenClassify ==
  [][ChunkProcessed =>
       LET rms == lastChunk'.rms
           updated ==
             IF rms < noiseFloor
               THEN (90 * noiseFloor + 10 * rms + 50) \div 100
             ELSE IF rms < 3 * noiseFloor
               THEN (95 * noiseFloor + 5 * rms + 50) \div 100
             ELSE noiseFloor
           limit == IF 6 * updated > 300 THEN 6 * updated ELSE 300
       IN  /\ noiseFloor' = updated
           /\ isUserSpeaking' = (rms > limit)]_vars

C12_Witness ==
  /\ noiseFloor > InitialNoiseFloor
  /\ lastChunk.rms = 50
  /\ ~isUserSpeaking

\* C13: a captured chunk is forwarded to the transport only while the session
\* is connected (the connection has opened and has not been torn down) and the
\* local mute state is off.
C13_ForwardedOnlyConnectedUnmuted ==
  lastChunk.forwarded =>
    /\ ~lastChunk.muted
    /\ connectResolved
    /\ pc \in {"open", "closed"}

(* the two interval timers: the countdown effect keeps its interval while *)
(* status is 'connected' and clearInterval was not called from the        *)
(* updater; the silence interval is cleared by the unmount cleanup only   *)
CountdownRunning == status = "connected" /\ isMounted /\ ~timerCleared

SilenceTimerRunning == isMounted

HandedOff == Len(completions') > Len(completions)

\* C14: on terminate, capture is stopped, playback is stopped and flushed,
\* the transport is closed and the timers are cancelled, and only then, after
\* the grace delay, the transcript and the reason are handed to onComplete:
\* at the step that makes the hand-off every teardown step has been done.
C14_HandOffAfterTeardown ==
  [][HandedOff =>
       /\ ~isConnected'
       /\ micTracks' # "live"
       /\ sourcesRef' = {}
       /\ nextAudioStartTime' = 0
       /\ pc' \notin {"connecting", "open"}
       /\ ~CountdownRunning'
       /\ ~SilenceTimerRunning']_vars

\* C15: once a termination is committed the countdown timer and the silence
\* timer are cancelled: no later step decrements the remaining time and no
\* later step sends a nudge or move-on system message.
C15_TimersCancelledOnTermination ==
  [][terminationTriggered =>
       /\ timeLeft' = timeLeft
       /\ systemMessages' = systemMessages]_vars

\* C16: over any sequence of termination, grace-timeout and unmount events,
\* also before the connection has opened, the transport is closed at most
\* once and the microphone tracks are stopped at most once, and when the
\* component is unmounted and initSession has run to its end the microphone
\* tracks that were acquired have been stopped (exactly once).  The audio
\* contexts are not part of the model's state.
C16_ReleasedExactlyOnce ==
  /\ transportCloses <= 1
  /\ micStops <= 1
  /\ (~isMounted /\ pc # "starting") =>
       /\ micTracks # "live"
       /\ micTracks = "stopped" => micStops = 1

\* C17: at the end of the handling of an interrupted server message the
\* AI-speaking flag is false and the waiting-for-user flag is false.
C17_InterruptedLeavesUserSpeaking ==
  [][(epoch' = epoch + 1 /\ isConnected')
       => (~isAiSpeaking' /\ ~isWaitingForResponse')]_vars

(* the state the interrupted message touches, and the handler's interrupted *)
(* and hasContent branches as a function of that state                      *)
TurnFlags ==
  [ai |-> isAiSpeaking, waiting |-> isWaitingForResponse,
   processing |-> isProcessingTimeout, lastEnd |-> lastAiTurnEndTime]

TurnFlagValues ==
  [ai : BOOLEAN, waiting : BOOLEAN, processing : BOOLEAN, lastEnd : {0, wallClock}]

InterruptState ==
  [sources |-> sourcesRef, next |-> nextAudioStartTime, turn |-> TurnFlags]

AfterInterrupted(s) ==
  [sources |-> {},
   next |-> InterruptedPointer(s.next),
   turn |-> TurnAfterComplete(
              TurnAfterContent(
                TurnAfterInterrupted(s.turn, InterruptedMessage),
                InterruptedMessage),
              InterruptedMessage, wallClock)]

InterruptStep == epoch' = epoch + 1 /\ isConnected'

NextStartUnchanged ==
  /\ sourcesRef' = sourcesRef
  /\ StartTime(currentTime', nextAudioStartTime')
       = StartTime(currentTime, nextAudioStartTime)

Idempotent(s) == AfterInterrupted(AfterInterrupted(s)) = AfterInterrupted(s)

\* C18 (as stated): an interrupted signal processed with an empty active set
\* changes nothing observable (the scheduler's next start time, the active
\* set and the turn flags are as before), and processing two interrupted
\* signals in a row leaves the scheduler and the turn flags as processing one.
C18_InterruptChangesNothingWhenIdle ==
  [][InterruptStep =>
       /\ sourcesRef = {} => (NextStartUnchanged /\ TurnFlags' = TurnFlags)
       /\ InterruptState' = AfterInterrupted(InterruptState)
       /\ \A t \in TurnFlagValues :
            Idempotent([InterruptState EXCEPT !.turn = t])]_vars

\* C18 (amended): an interrupted signal processed with an empty active set
\* changes nothing observable in the output scheduler (the set stays empty
\* and the next buffer starts at the same time as it would have), though it
\* does rewrite the turn flags; and processing two interrupted signals in a
\* row leaves the scheduler and the turn flags as processing one.
C18_InterruptRedundant ==
  [][InterruptStep =>
       /\ sourcesRef = {} => NextStartUnchanged
       /\ InterruptState' = AfterInterrupted(InterruptState)
       /\ Idempotent(InterruptState)
       /\ \A t \in TurnFlagValues :
            Idempotent([InterruptState EXCEPT !.turn = t])]_vars

C18_Witness ==
  /\ epoch = 1
  /\ isConnected
  /\ lastStopped.count = 0
  /\ lastStopped.pointer > 0
  /\ scheduledCount >= 1
  /\ nextAudioStartTime = 0

SystemMessageSent == Len(systemMessages') = Len(systemMessages) + 1

\* C19 (as stated): the silence check sends a system message only when the
\* session is connected, the state is WaitingForUser, no escalation is in
\* flight and more than SilenceThreshold seconds have elapsed since the last
\* turn-complete; each such send increments the escalation counter by one;
\* and at most one system message is sent within one waiting period.
C19_EverySendIncrements ==
  /\ [][SystemMessageSent =>
          /\ isConnected
          /\ isWaitingForResponse /\ ~isAiSpeaking
          /\ ~isProcessingTimeout
          /\ wallClock' - lastAiTurnEndTime > SilenceThreshold
          /\ silenceWarningCount' = silenceWarningCount + 1]_vars
  /\ [](periodSends <= 1)

\* C19 (amended): as stated, except that the send which takes the counter
\* above EscalationCap does not leave it incremented but resets it to 0.
C19_SendsOncePerWaitingPeriod ==
  /\ [][SystemMessageSent =>
          /\ isConnected
          /\ isWaitingForResponse /\ ~isAiSpeaking
          /\ ~isProcessingTimeout
          /\ wallClock' - lastAiTurnEndTime > SilenceThreshold
          /\ silenceWarningCount' =
               IF silenceWarningCount + 1 > EscalationCap
                 THEN 0 ELSE silenceWarningCount + 1]_vars
  /\ [](periodSends <= 1)

C19_Witness ==
  /\ periodSends = 1
  /\ isWaitingForResponse /\ isProcessingTimeout
  /\ Len(systemMessages) = 3
  /\ silenceWarningCount = 0
  /\ wallClock - lastAiTurnEndTime > SilenceThreshold + 1

\* C20: a silence timeout that raises the escalation counter above
\* EscalationCap appends exactly one no-answer user line (to the displayed
\* lines and to the history), resets the counter to 0 and sends the move-on
\* message instead of the nudge; a timeout that leaves the counter at 1 or 2
\* sends only the nudge and appends no line.
C20_CapExceededMovesOn ==
  [][silentTimeouts' = silentTimeouts + 1 =>
       /\ SystemMessageSent
       /\ IF silenceWarningCount + 1 > EscalationCap
            THEN /\ transcriptLines' = Append(transcriptLines,
                        [speaker |-> "user", text |-> NoAnswerText])
                 /\ fullTranscriptHistory' = Append(fullTranscriptHistory,
                        <<"User:", " ">> \o NoAnswerText)
                 /\ silenceWarningCount' = 0
                 /\ Last(systemMessages').text = MoveOnText
            ELSE /\ silenceWarningCount' = silenceWarningCount + 1
                 /\ silenceWarningCount' \in 1..EscalationCap
                 /\ UNCHANGED transcriptVars
                 /\ Last(systemMessages').text = NudgeText]_vars

C20_Witness ==
  /\ silenceWarningCount = 0
  /\ silentTimeouts = EscalationCap + 1
  /\ Last(systemMessages).text = MoveOnText
  /\ fullTranscriptHistory # <<>>
  /\ Last(fullTranscriptHistory) = <<"User:", " ">> \o NoAnswerText

SpeechDetected == ChunkProcessed /\ isUserSpeaking'

\* C21: a chunk classified as speech while the state is WaitingForUser takes
\* the state out of WaitingForUser and resets the escalation counter to 0;
\* a system message is sent only while the waiting flag is set, and the
\* waiting flag is set again only by a turn-complete, so no nudge is sent
\* until a later turn-complete starts a new waiting period.
C21_SpeechLeavesWaiting ==
  [][/\ (SpeechDetected /\ WaitingForUser) =>
          /\ ~isWaitingForResponse'
          /\ ~WaitingForUser'
          /\ silenceWarningCount' = 0
          /\ systemMessages' = systemMessages
     /\ SystemMessageSent => isWaitingForResponse
     /\ (~isWaitingForResponse /\ isWaitingForResponse') =>
          /\ ~SpeechDetected
          /\ lastAiTurnEndTime' = wallClock
          /\ ~isAiSpeaking']_vars

C21_Witness ==
  /\ isUserSpeaking
  /\ lastChunk.rms > MinThreshold
  /\ ~isWaitingForResponse
  /\ ~isAiSpeaking
  /\ isProcessingTimeout
  /\ systemMessages # <<>>
  /\ silenceWarningCount = 0
  /\ silentTimeouts = 0
  /\ transcriptLines = <<>>

\* C22: a server message that carries content and no turn-complete flag
\* leaves the turn state AiSpeaking with the waiting flag and the
\* escalation-in-flight flag cleared; the silence check sends only in
\* WaitingForUser, and only a turn-complete message sets the waiting flag
\* again, so nothing is sent until the next turn-complete.
C22_ContentCancelsEscalation ==
  [][/\ \A m \in TurnMessages :
          (m.hasContent /\ ~m.turnComplete /\ onmessage(m)) =>
            /\ isAiSpeaking'
            /\ ~isWaitingForResponse'
            /\ ~isProcessingTimeout'
            /\ ~WaitingForUser'
            /\ systemMessages' = systemMessages
     /\ SystemMessageSent => WaitingForUser
     /\ (~isWaitingForResponse /\ isWaitingForResponse') =>
          \E m \in TurnMessages : m.turnComplete /\ onmessage(m)]_vars

C22_Witness ==
  /\ isAiSpeaking
  /\ ~isWaitingForResponse
  /\ ~isProcessingTimeout
  /\ lastAiTurnEndTime = 0
  /\ systemMessages # <<>>
  /\ silenceWarningCount = 1
  /\ periodSends = 0

\* C23: the remaining time starts at TimeBudget, never increases and is never
\* negative; it changes only by a decrement of exactly 1, made by a tick
\* while the status is connected; and the tick that brings it to 0 requests
\* termination with the time-limit reason.
C23_CountdownMonotonic ==
  /\ timeLeft = TimeBudget
  /\ [](timeLeft \in 0..TimeBudget)
  /\ [][timeLeft' # timeLeft =>
          /\ timeLeft' = timeLeft - 1
          /\ status = "connected"
          /\ timerTick
          /\ timeLeft' = 0 =>
               /\ timeLimitRequests' = timeLimitRequests + 1
               /\ callCount' = Min(callCount + 1, MaxCalls)
               /\ callCount = 0 => firstRequest' = ReasonTimeLimit
               /\ terminationTriggered'
               /\ ~terminationTriggered =>
                    graceTimers' = Append(graceTimers, ReasonTimeLimit)]_vars

C23_Witness ==
  /\ timeLeft = 0
  /\ timeLimitRequests = 1
  /\ firstRequest = ReasonTimeLimit
  /\ graceTimers = <<ReasonTimeLimit>>
  /\ completions = <<>>

Finished(source) == currentTime >= source.start + source.dur

\* C24: every buffer whose playback has completed is removed from the active
\* source set by its completion callback: whenever the active set holds a
\* buffer that has finished playing, it is eventually free of finished
\* buffers.
C24_FinishedBuffersReleased ==
  (\E source \in sourcesRef : Finished(source))
    ~> (\A source \in sourcesRef : ~Finished(source))

\* C25: an audio fragment whose decoding fails is dropped: nothing is
\* scheduled for it, the schedule pointer and the active set are unchanged
\* and the session stays connected; a later fragment that decodes is still
\* scheduled, and every pending decode can still return.
C25_UndecodableFragmentDropped ==
  /\ [][\A f \in pendingDecodes :
          /\ (~decodeAudioData(f) /\ decodeDone(f)) =>
               /\ pendingDecodes' = pendingDecodes \ {f}
               /\ UNCHANGED <<nextAudioStartTime, sourcesRef, scheduledCount,
                              lastScheduled>>
               /\ UNCHANGED <<pc, status, isConnected, sessionRef>>
               /\ isConnected'
          /\ (decodeAudioData(f) /\ decodeDone(f)) =>
               /\ scheduledCount' = scheduledCount + 1
               /\ lastScheduled'.arrival = f.arrival
               /\ \E source \in sourcesRef' \ sourcesRef :
                    source.arrival = f.arrival]_vars
  /\ [](\A f \in pendingDecodes : ENABLED decodeDone(f))
  /\ [](\A source \in sourcesRef :
          \A f \in pendingDecodes : source.arrival # f.arrival)

C25_Witness ==
  /\ arrivals = 2
  /\ pendingDecodes = {}
  /\ scheduledCount = 1
  /\ lastScheduled.arrival = 2
  /\ Cardinality(sourcesRef) = 1
  /\ isConnected

\* C26: a failed outbound send of an audio chunk is swallowed: the chunk is
\* processed exactly as a delivered one (the noise floor and the turn flags
\* get the values the VAD gives them, status and connected flag do not
\* change), capture goes on, and the following chunks are still processed
\* and sent.
C26_FailedSendSwallowed ==
  /\ [][\A rms \in RmsLevels :
          onaudioprocessSend(rms, FALSE) =>
            LET floor == NoiseFloorUpdate(noiseFloor, rms)
                speech == rms > DetectionThreshold(floor)
            IN  /\ UNCHANGED <<pc, status, isMounted, isConnected, sessionRef,
                               connectResolved, streamRef, micTracks,
                               trackEnabled>>
                /\ UNCHANGED <<isAiSpeaking, isProcessingTimeout,
                               lastAiTurnEndTime, systemMessages>>
                /\ noiseFloor' = floor
                /\ isUserSpeaking' = speech
                /\ isWaitingForResponse' = (isWaitingForResponse /\ ~speech)
                /\ silenceWarningCount' =
                     (IF speech THEN 0 ELSE silenceWarningCount)]_vars
  /\ [](lastChunk.sendFailed =>
          /\ isConnected
          /\ status = "connected"
          /\ \A rms \in RmsLevels : ENABLED onaudioprocessSend(rms, TRUE))
  /\ [][(ChunkProcessed /\ lastChunk.sendFailed) =>
          lastChunk'.forwarded = connectResolved]_vars

C26_Witness ==
  /\ lastChunk.prevFailed
  /\ ~lastChunk.sendFailed
  /\ lastChunk.forwarded
  /\ isConnected
  /\ status = "connected"
  /\ isWaitingForResponse

Unexpected(m) == m.toolCall # "endInterview" /\ ~m.hasContent

\* C27: a server message with no endInterview tool call and no server
\* content is ignored: the turn flags, the escalation counter, the
\* transcript, the schedule pointer, the active set, the status and the
\* termination guard are unchanged (nothing at all is), and the session
\* continues.
C27_UnexpectedMessageIgnored ==
  [][\A m \in ProtocolMessages :
       (Unexpected(m) /\ onmessage(m)) =>
         /\ UNCHANGED <<isAiSpeaking, isWaitingForResponse, isProcessingTimeout,
                        lastAiTurnEndTime, silenceWarningCount>>
         /\ UNCHANGED <<transcriptLines, fullTranscriptHistory>>
         /\ UNCHANGED <<nextAudioStartTime, sourcesRef, pendingDecodes>>
         /\ UNCHANGED <<status, terminationTriggered, graceTimers>>
         /\ UNCHANGED vars
         /\ isConnected' /\ pc' = "open"]_vars

C27_Witness ==
  /\ ENABLED onmessage(EmptyMessage)
  /\ ENABLED onmessage([EmptyMessage EXCEPT !.toolCall = "other"])
  /\ WaitingForUser
  /\ isProcessingTimeout
  /\ silenceWarningCount = 1
  /\ sourcesRef # {}
  /\ transcriptLines # <<>>
  /\ ~terminationTriggered

\* C28: a tab-switch violation requests termination with the security reason
\* exactly when it brings the violation count to ViolationLimit or more: the
\* first and the second violation request nothing, and a later request goes
\* through the terminate-once guard (it commits nothing when a termination
\* is already committed).
C28_SecurityTerminationAtLimit ==
  /\ [][warningCount' # warningCount =>
          /\ triggerViolation
          /\ warningCount' = warningCount + 1
          /\ IF warningCount' >= ViolationLimit
               THEN /\ callCount' = Min(callCount + 1, MaxCalls)
                    /\ callCount = 0 => firstRequest' = ReasonSecurity
                    /\ terminationTriggered'
                    /\ graceTimers' =
                         IF terminationTriggered
                           THEN graceTimers
                           ELSE Append(graceTimers, ReasonSecurity)
               ELSE UNCHANGED <<callCount, firstRequest, terminationTriggered,
                                graceTimers>>]_vars
  /\ [](\A i \in DOMAIN CommittedReasons :
          CommittedReasons[i] = ReasonSecurity =>
            (warningCount >= ViolationLimit /\ Len(CommittedReasons) = 1))

C28_Witness ==
  /\ warningCount = ViolationLimit + 1
  /\ callCount = 2
  /\ firstRequest = ReasonSecurity
  /\ completions = <<ReasonSecurity>>
  /\ graceTimers = <<>>

\* C29: the AI-speaking flag and the waiting-for-user flag are never both
\* true, so the turn state is exactly one of AiSpeaking, WaitingForUser or
\* neither (Idle/UserSpeaking); initially both flags are false and the
\* escalation counter is 0.
AiSpeaking == isAiSpeaking /\ ~isWaitingForResponse

C29_TurnStateExclusive ==
  /\ ~isAiSpeaking /\ ~isWaitingForResponse /\ silenceWarningCount = 0
  /\ [](~(isAiSpeaking /\ isWaitingForResponse))
  /\ [](Cardinality({x \in {"AiSpeaking", "WaitingForUser", "neither"} :
          \/ x = "AiSpeaking" /\ AiSpeaking
          \/ x = "WaitingForUser" /\ isWaitingForResponse /\ ~isAiSpeaking
          \/ x = "neither" /\ ~isAiSpeaking /\ ~isWaitingForResponse}) = 1)

C29_Witness ==
  /\ WaitingForUser
  /\ lastAiTurnEndTime = wallClock
  /\ lastAiTurnEndTime > 0
  /\ silenceWarningCount = 0
  /\ systemMessages = <<>>
  /\ transcriptLines = <<>>
  /\ ~isUserSpeaking

\* C30: no fragment that was received before an interrupted signal is
\* scheduled after that signal has been processed: every scheduled source
\* is scheduled in the flush epoch in which its fragment arrived, so a
\* fragment whose decode was pending at the interruption is never started.
C30_NoStaleFragmentAfterInterrupt ==
  scheduledCount > 0 => lastScheduled.arrivalEpoch = lastScheduled.epoch

\* C31: after disconnect has run the active source set stays empty and no
\* buffer is started: a fragment whose decode completes after the teardown
\* is neither scheduled nor added to the active set.
C31_NothingScheduledAfterDisconnect ==
  completions # <<>> =>
    /\ sourcesRef = {}
    /\ nextAudioStartTime = 0
    /\ scheduledCount > 0 => lastScheduled.epoch = 0

(* AI audio is still scheduled or playing at time now *)
AudioOutstanding(now) ==
  \/ \E source \in sourcesRef : now < source.start + source.dur
  \/ now < nextAudioStartTime

\* C32 (as stated): a nudge or move-on system message is never sent while
\* AI audio is still scheduled or playing in the output scheduler.
C32_NoNudgeDuringPlayback ==
  [][(SystemMessageSent /\ systemMessages'[Len(systemMessages')].delivered)
       => ~AudioOutstanding(wallClock')]_vars

\* C32 (amended): a system message is never sent while the AI-speaking flag
\* is set or before more than SilenceThreshold seconds have passed since the
\* last turn-complete message, and the anchor of that measure is written
\* only by a message with content; the state of the output scheduler plays
\* no part.
C32_NudgeMeasuredFromTurnComplete ==
  [][/\ SystemMessageSent =>
          /\ ~isAiSpeaking
          /\ isWaitingForResponse
          /\ wallClock' - lastAiTurnEndTime > SilenceThreshold
     /\ lastAiTurnEndTime' # lastAiTurnEndTime =>
          \E m \in PlaybackMessages :
            /\ m.hasContent
            /\ onmessage(m)
            /\ lastAiTurnEndTime' = IF m.turnComplete THEN wallClock ELSE 0]_vars

C32_Witness ==
  /\ systemMessages # <<>>
  /\ systemMessages[Len(systemMessages)].delivered
  /\ isProcessingTimeout
  /\ WaitingForUser
  /\ sourcesRef # {}
  /\ AudioOutstanding(wallClock)
  /\ ClocksAgree

(* the step appends a system message that the transport accepted *)
SystemMessageDelivered ==
  /\ SystemMessageSent
  /\ systemMessages'[Len(systemMessages')].delivered

\* C33: a silence timeout changes the escalation counter and the
\* escalation-in-flight flag, and appends the no-answer line, only when a
\* system message is actually sent to the transport: when there is no
\* session handle or the send throws, none of them changes.
C33_EscalationOnlyWhenSent ==
  [][(silentTimeouts' # silentTimeouts /\ ~SystemMessageDelivered) =>
       /\ silenceWarningCount' = silenceWarningCount
       /\ isProcessingTimeout' = isProcessingTimeout
       /\ transcriptLines' = transcriptLines
       /\ fullTranscriptHistory' = fullTranscriptHistory]_vars

IsNoAnswerEntry(entry) == entry = <<"User:", " ">> \o NoAnswerText

\* C34: a synthetic no-answer line, once appended, is never changed, in the
\* displayed list and in the history: a user transcription fragment that
\* arrives after it is not concatenated onto it.
C34_NoAnswerLineImmutable ==
  [][/\ \A i \in DOMAIN transcriptLines :
          IsNoAnswerLine(transcriptLines[i]) =>
            transcriptLines'[i] = transcriptLines[i]
     /\ \A i \in DOMAIN fullTranscriptHistory :
          IsNoAnswerEntry(fullTranscriptHistory[i]) =>
            fullTranscriptHistory'[i] = fullTranscriptHistory[i]]_vars

SpeakerPrefix(speaker) == IF speaker = "ai" THEN "AI:" ELSE "User:"

\* C35: the displayed transcript lines and the transcript history correspond
\* line by line: they have the same number of lines and the i-th history
\* entry is "AI: " or "User: ", matching the i-th displayed speaker,
\* followed by the i-th displayed text.
C35_HistoryMatchesDisplay ==
  /\ Len(fullTranscriptHistory) = Len(transcriptLines)
  /\ \A i \in DOMAIN transcriptLines :
       i \in DOMAIN fullTranscriptHistory =>
         fullTranscriptHistory[i] =
           <<SpeakerPrefix(transcriptLines[i].speaker), " ">>
             \o transcriptLines[i].text

\* C36: every session that has reached the status connected eventually
\* commits a termination (by countdown expiry at the latest), also after a
\* transport error or close has changed the connection status.
C36_ConnectedEventuallyTerminates ==
  (status = "connected") ~> (CommittedReasons # <<>>)

\* C37: the connection status 'error' is terminal: once the status is
\* 'error' it never changes again, in every order of the transport's open,
\* error and close callbacks.
C37_ErrorStatusTerminal ==
  [][status = "error" => status' = "error"]_vars

\* C38: after any number of mute toggles the microphone audio tracks are
\* enabled exactly when the mute state shown to the user is off.
C38_TracksEnabledIffUnmuted ==
  streamRef = "stream" => (trackEnabled <=> ~isMuted)

====
